---- MODULE Spec2Model ----
(***************************************************************************)
(* Per-request credential extraction and propagation of src/server.py:     *)
(* AuthMiddleware.on_request (the Interceptor), get_session_api_key (the   *)
(* Resolver) and the two tools example_tool and get_api_info.              *)
(*                                                                         *)
(* Text is a sequence of one-character strings.  An optional value is a    *)
(* sequence of length at most one: <<>> is Python's None (or a missing     *)
(* header / attribute) and <<t>> is the text t, which may itself be the    *)
(* empty text <<>>.                                                        *)
(*                                                                         *)
(* on_request and get_session_api_key contain no await before their last   *)
(* line, so each runs as one step of its asyncio task; tasks of different  *)
(* calls interleave between those steps.                                   *)
(***************************************************************************)
EXTENDS Integers, Sequences, FiniteSets, TLC

VARIABLES pc, transport, auth, xkey, ctxState, reqState, altState, ambient,
          bound, nextCalls, reads, result, fault

vars == <<pc, transport, auth, xkey, ctxState, reqState, altState, ambient,
          bound, nextCalls, reads, result, fault>>

(* ------------------------------ bounds -------------------------------- *)

\* Longest text that follows the scheme word of an Authorization value.
MaxTail == 3

\* Resolver invocations made within one call.
MaxReads == 2

\* The two concurrently handled calls.
Calls == {"A", "B"}

(* ------------------------------- text --------------------------------- *)

None == <<>>

Some(t) == <<t>>

\* len("bearer "), the slice index of auth[7:]
BearerLen == 7

BearerPrefix == <<"b", "e", "a", "r", "e", "r", " ">>

\* str.lower() on the characters the model uses
Lower(ch) ==
    CASE ch = "B" -> "b"
      [] ch = "E" -> "e"
      [] ch = "A" -> "a"
      [] ch = "R" -> "r"
      [] ch = "K" -> "k"
      [] OTHER -> ch

LowerStr(s) == [i \in 1..Len(s) |-> Lower(s[i])]

\* str.startswith
StartsWith(s, p) == Len(s) >= Len(p) /\ SubSeq(s, 1, Len(p)) = p

\* s[n:]
Drop(s, n) == SubSeq(s, n + 1, Len(s))

IsSpace(ch) == ch \in {" ", "\t"}

RECURSIVE LStrip(_)
LStrip(s) == IF s # <<>> /\ IsSpace(Head(s)) THEN LStrip(Tail(s)) ELSE s

RECURSIVE RStrip(_)
RStrip(s) ==
    IF s # <<>> /\ IsSpace(s[Len(s)]) THEN RStrip(SubSeq(s, 1, Len(s) - 1)) ELSE s

\* A lost trailing trim.
StripLeftOnly(s) == LStrip(s)

\* str.strip()
Strip(s) == RStrip(LStrip(s))

\* Python truthiness of an optional text: None and "" are falsy.
Falsy(o) == Len(o) = 0 \/ Len(o[1]) = 0

\* headers.get(name, "")
HeaderGet(h) == IF Len(h) = 0 THEN <<>> ELSE h[1]

(* --------------------------- inbound traffic -------------------------- *)

SeqsUpTo(S, n) == UNION {[1..k -> S] : k \in 0..n}

TailChars == {" ", "a", "K"}

Tails == SeqsUpTo(TailChars, MaxTail)

Prefixes ==
    { <<"B", "e", "a", "r", "e", "r", " ">>,
      <<"b", "E", "A", "R", "E", "R", " ">>,
      <<"B", "e", "a", "r", "e", "r">>,
      <<"B", "a", "s", "i", "c", " ">>,
      <<>> }

\* Authorization header: absent, or any prefix followed by any tail.
AuthValues == {None} \cup {Some(p \o t) : p \in Prefixes, t \in Tails}

\* X-API-KEY header: absent, empty, plain, or padded with blanks.
KeyValues == {None, Some(<<>>), Some(<<"k">>), Some(<<" ", "k", " ">>)}

\* The header values used when two calls are in flight together.
ConcAuthValues ==
    { None,
      Some(<<"B", "e", "a", "r", "e", "r", " ", "a">>),
      Some(<<"B", "e", "a", "r", "e", "r", " ", " ">>),
      Some(<<"B", "a", "s", "i", "c", " ", "a">>) }

ConcKeyValues == {None, Some(<<"k">>)}

(* ------------------------------ objects ------------------------------- *)

\* Each call has its own request object and its own Call Context; the
\* context on_request is handed and the context the tool is handed are that
\* one Call Context, and get_http_request() / get_context() answer for the
\* calling task.  ctxState[c] is the `state` attribute of call c's context,
\* reqState[c] is request.state of call c's request, and altState[c] is the
\* `state` of a second context object that get_context() returns when
\* ambient[c] = "alt" (ambient[c] = "ctx": it returns the call's context;
\* "raises": it raises).

\* The `state` attribute of a context object:
\*   "missing"  the object has no such attribute (hasattr is False)
\*   "raises"   reading the attribute raises something other than AttributeError
\*   "frozen"   the attribute exists but rejects assignment
\*   "store"    an attribute bag
\* api_key is None while the bag has no api_key attribute.
StateKinds == {"missing", "raises", "frozen", "store"}

NoState == [kind |-> "missing", api_key |-> None]

EmptyStore == [kind |-> "store", api_key |-> None]

NoResult == [tool |-> "none", seen |-> None, kind |-> "none",
             error |-> "", auth_status |-> "", query |-> ""]

MissingKeyMessage ==
    "No API key found. Please authenticate with Authorization: Bearer YOUR_API_KEY"

Queries == {"apod"}

Init ==
    /\ pc = [c \in Calls |-> "idle"]
    /\ transport = [c \in Calls |-> "http"]
    /\ auth = [c \in Calls |-> None]
    /\ xkey = [c \in Calls |-> None]
    /\ ctxState = [c \in Calls |-> NoState]
    /\ reqState = [c \in Calls |-> EmptyStore]
    /\ altState = [c \in Calls |-> NoState]
    /\ ambient = [c \in Calls |-> "ctx"]
    /\ bound = [c \in Calls |-> "none"]
    /\ nextCalls = [c \in Calls |-> 0]
    /\ reads = [c \in Calls |-> <<>>]
    /\ result = [c \in Calls |-> NoResult]
    /\ fault = [c \in Calls |-> "none"]

\* A call comes in: the transport creates its request (when it is an HTTP
\* transport) and the dispatcher its Call Context.
Arrive(c, auths, keys) ==
    /\ pc[c] = "idle"
    /\ \E t \in {"http", "other"}, k \in StateKinds :
        /\ transport' = [transport EXCEPT ![c] = t]
        /\ ctxState' = [ctxState EXCEPT ![c] = [kind |-> k, api_key |-> None]]
        /\ IF t = "http"
           THEN \E a \in auths, x \in keys :
                    /\ auth' = [auth EXCEPT ![c] = a]
                    /\ xkey' = [xkey EXCEPT ![c] = x]
           ELSE /\ auth' = [auth EXCEPT ![c] = None]
                /\ xkey' = [xkey EXCEPT ![c] = None]
    /\ pc' = [pc EXCEPT ![c] = "arrived"]
    /\ reqState' = [reqState EXCEPT ![c] = EmptyStore]
    /\ UNCHANGED <<altState, ambient, bound, nextCalls, reads, result, fault>>

(* --------------------- AuthMiddleware.on_request ---------------------- *)

\* get_http_request(): the request of the calling task, or an exception
\* when the call did not come over an HTTP transport.
HttpRequestRaises(c) == transport[c] # "http"

\* The X-API-KEY value trimmed like the bearer token.
ExtractTokenTrimKey(a, x) ==
    LET v == HeaderGet(a)
        token == IF StartsWith(LowerStr(v), BearerPrefix)
                 THEN Some(Strip(Drop(v, BearerLen)))
                 ELSE None
    IN  IF Falsy(token) THEN Some(Strip(HeaderGet(x))) ELSE token

\* The token on_request takes from the two headers.
ExtractToken(a, x) ==
    LET v == HeaderGet(a)
        token == IF StartsWith(LowerStr(v), BearerPrefix)
                 THEN Some(Strip(Drop(v, BearerLen)))
                 ELSE None
    IN  IF Falsy(token) THEN Some(HeaderGet(x)) ELSE token

\* The body of on_request's try block: where the token goes, or that the
\* body raised.
BindTarget(c) ==
    IF HttpRequestRaises(c)
    THEN [raised |-> TRUE, where |-> "none", token |-> None]
    ELSE LET token == ExtractToken(auth[c], xkey[c]) IN
         IF Falsy(token)
         THEN [raised |-> FALSE, where |-> "none", token |-> None]
         ELSE CASE ctxState[c].kind = "raises" ->
                     [raised |-> TRUE, where |-> "none", token |-> None]
                [] ctxState[c].kind = "frozen" ->
                     [raised |-> TRUE, where |-> "none", token |-> None]
                [] ctxState[c].kind = "store" ->
                     [raised |-> FALSE, where |-> "context", token |-> token]
                [] OTHER ->
                     [raised |-> FALSE, where |-> "request", token |-> token]

\* The exception leaves on_request.
Reraise(o) == o

\* except Exception: logged, not raised.
Swallow(o) == [o EXCEPT !.raised = FALSE]

\* One state object shared by every call.
StoreWriteShared(store, c, t) ==
    [d \in Calls |-> [store[d] EXCEPT !.api_key = Some(t)]]

\* <object>.state.api_key = token
StoreWrite(store, c, t) == [store EXCEPT ![c].api_key = Some(t)]

OnRequest(c) ==
    /\ pc[c] = "arrived"
    /\ LET o == Swallow(BindTarget(c)) IN
        /\ ctxState' = IF o.where = "context"
                       THEN StoreWrite(ctxState, c, o.token[1])
                       ELSE ctxState
        /\ reqState' = IF o.where = "request"
                       THEN StoreWrite(reqState, c, o.token[1])
                       ELSE reqState
        /\ bound' = [bound EXCEPT ![c] = o.where]
        /\ IF o.raised
           THEN /\ pc' = [pc EXCEPT ![c] = "rejected"]
                /\ fault' = [fault EXCEPT ![c] = "interceptor"]
                /\ UNCHANGED nextCalls
           ELSE /\ pc' = [pc EXCEPT ![c] = "dispatched"]
                /\ nextCalls' = [nextCalls EXCEPT ![c] = @ + 1]
                /\ UNCHANGED fault
    /\ UNCHANGED <<transport, auth, xkey, altState, ambient, reads, result>>

(* ------------------------ get_session_api_key ------------------------- *)

NotFound == [raised |-> FALSE, found |-> FALSE, value |-> None]

\* hasattr(x, 'state') and hasattr(x.state, 'api_key'), then x.state.api_key
ReadState(s) ==
    CASE s.kind = "raises" -> [raised |-> TRUE, found |-> FALSE, value |-> None]
      [] s.kind = "missing" -> NotFound
      [] OTHER -> [raised |-> FALSE, found |-> s.api_key # None, value |-> s.api_key]

\* The request store is never consulted.
RequestLookupSkipped(c) == NotFound

\* Second attempt, in its own try: the current request's store.
RequestLookup(c) ==
    IF HttpRequestRaises(c)
    THEN NotFound
    ELSE [raised |-> FALSE, found |-> reqState[c].api_key # None,
          value |-> reqState[c].api_key]

\* Third attempt, in its own try: the context get_context() returns.
AmbientLookup(c) ==
    LET r == CASE ambient[c] = "raises" -> NotFound
               [] ambient[c] = "alt" -> ReadState(altState[c])
               [] OTHER -> ReadState(ctxState[c])
    IN  IF r.raised THEN NotFound ELSE r

\* The exception leaves the function.
OuterReraise(r) == r

\* The outer except: the function ends at `return None`.
OuterHandler(r) == IF r.raised THEN [raised |-> FALSE, value |-> None] ELSE r

\* A one-shot read: the key is handed out once per call.
GetSessionApiKeyOnce(c) ==
    IF Len(reads[c]) > 0
    THEN [raised |-> FALSE, value |-> None]
    ELSE LET s1 == ReadState(ctxState[c]) IN
         IF s1.found THEN [raised |-> FALSE, value |-> s1.value]
         ELSE [raised |-> FALSE, value |-> RequestLookup(c).value]

GetSessionApiKey(c) ==
    LET s1 == ReadState(ctxState[c])
        s2 == RequestLookup(c)
        s3 == AmbientLookup(c)
    IN  OuterHandler(
          IF s1.raised THEN [raised |-> TRUE, value |-> None]
          ELSE IF s1.found THEN [raised |-> FALSE, value |-> s1.value]
          ELSE IF s2.found THEN [raised |-> FALSE, value |-> s2.value]
          ELSE IF s3.found THEN [raised |-> FALSE, value |-> s3.value]
          ELSE [raised |-> FALSE, value |-> None])

(* ------------------------------- tools -------------------------------- *)

\* The placeholder result whatever the key.
ExampleToolAlwaysSucceeds(k, q) ==
    [tool |-> "example_tool", seen |-> k, kind |-> "success",
     error |-> "", auth_status |-> "", query |-> q]

ExampleToolResult(k, q) ==
    IF Falsy(k)
    THEN [tool |-> "example_tool", seen |-> k, kind |-> "error",
          error |-> MissingKeyMessage, auth_status |-> "", query |-> ""]
    ELSE [tool |-> "example_tool", seen |-> k, kind |-> "success",
          error |-> "", auth_status |-> "", query |-> q]

GetApiInfoResult(k) ==
    [tool |-> "get_api_info", seen |-> k, kind |-> "ready", error |-> "",
     auth_status |-> IF Falsy(k) THEN "not authenticated" ELSE "authenticated",
     query |-> ""]

\* A tool body: one Resolver invocation, then the tool's result.
RunTool(c, r, res) ==
    /\ pc[c] = "dispatched"
    /\ result[c] = NoResult
    /\ Len(reads[c]) < MaxReads
    /\ IF r.raised
       THEN /\ fault' = [fault EXCEPT ![c] = "resolver"]
            /\ UNCHANGED <<reads, result>>
       ELSE /\ reads' = [reads EXCEPT ![c] = Append(@, r.value)]
            /\ result' = [result EXCEPT ![c] = res]
            /\ UNCHANGED fault
    /\ UNCHANGED <<pc, transport, auth, xkey, ctxState, reqState, altState,
                   ambient, bound, nextCalls>>

CallExampleTool(c) ==
    \E q \in Queries :
        LET r == GetSessionApiKey(c) IN RunTool(c, r, ExampleToolResult(r.value, q))

CallGetApiInfo(c) ==
    LET r == GetSessionApiKey(c) IN RunTool(c, r, GetApiInfoResult(r.value))

\* A further Resolver invocation in the same Call Context.
Resolve(c) ==
    /\ pc[c] = "dispatched"
    /\ Len(reads[c]) < MaxReads
    /\ LET r == GetSessionApiKey(c) IN
        IF r.raised
        THEN /\ fault' = [fault EXCEPT ![c] = "resolver"]
             /\ UNCHANGED reads
        ELSE /\ reads' = [reads EXCEPT ![c] = Append(@, r.value)]
             /\ UNCHANGED fault
    /\ UNCHANGED <<pc, transport, auth, xkey, ctxState, reqState, altState,
                   ambient, bound, nextCalls, result>>

\* The tool has returned: the request and the Call Context are discarded.
Finish(c) ==
    /\ pc[c] = "dispatched"
    /\ result[c] # NoResult
    /\ pc' = [pc EXCEPT ![c] = "idle"]
    /\ transport' = [transport EXCEPT ![c] = "http"]
    /\ auth' = [auth EXCEPT ![c] = None]
    /\ xkey' = [xkey EXCEPT ![c] = None]
    /\ ctxState' = [ctxState EXCEPT ![c] = NoState]
    /\ reqState' = [reqState EXCEPT ![c] = EmptyStore]
    /\ bound' = [bound EXCEPT ![c] = "none"]
    /\ nextCalls' = [nextCalls EXCEPT ![c] = 0]
    /\ reads' = [reads EXCEPT ![c] = <<>>]
    /\ result' = [result EXCEPT ![c] = NoResult]
    /\ fault' = [fault EXCEPT ![c] = "none"]
    /\ UNCHANGED <<altState, ambient>>

(* --------------------------- specifications --------------------------- *)

\* Two calls handled concurrently.
Next ==
    \E c \in Calls :
        \/ Arrive(c, ConcAuthValues, ConcKeyValues)
        \/ OnRequest(c)
        \/ CallExampleTool(c)
        \/ CallGetApiInfo(c)
        \/ Resolve(c)
        \/ Finish(c)

Spec == Init /\ [][Next]_vars

\* One call at a time, over the whole range of header values.
NextHeaders ==
    \/ Arrive("A", AuthValues, KeyValues)
    \/ OnRequest("A")
    \/ CallExampleTool("A")
    \/ CallGetApiInfo("A")
    \/ Resolve("A")
    \/ Finish("A")

SpecHeaders == Init /\ [][NextHeaders]_vars

\* get_session_api_key applied to every shape of its inputs: the context it
\* is handed, the current request and the context get_context() returns.
KeyOptions == {None, Some(<<>>), Some(<<"a">>), Some(<<"b">>)}

StateShapes ==
    {[kind |-> "missing", api_key |-> None], [kind |-> "raises", api_key |-> None]}
    \cup {[kind |-> "store", api_key |-> v] : v \in KeyOptions}

InitResolver ==
    /\ pc = [c \in Calls |-> IF c = "A" THEN "dispatched" ELSE "idle"]
    /\ transport \in [Calls -> {"http", "other"}]
    /\ transport["B"] = "http"
    /\ auth = [c \in Calls |-> None]
    /\ xkey = [c \in Calls |-> None]
    /\ ctxState \in [Calls -> StateShapes]
    /\ ctxState["B"] = NoState
    /\ reqState \in [Calls -> {[kind |-> "store", api_key |-> v] : v \in KeyOptions}]
    /\ reqState["B"] = EmptyStore
    /\ (transport["A"] = "other" => reqState["A"] = EmptyStore)
    /\ ambient \in [Calls -> {"ctx", "alt", "raises"}]
    /\ ambient["B"] = "ctx"
    /\ altState \in [Calls -> StateShapes]
    /\ altState["B"] = NoState
    /\ (ambient["A"] # "alt" => altState["A"] = NoState)
    /\ bound = [c \in Calls |-> "none"]
    /\ nextCalls = [c \in Calls |-> IF c = "A" THEN 1 ELSE 0]
    /\ reads = [c \in Calls |-> <<>>]
    /\ result = [c \in Calls |-> NoResult]
    /\ fault = [c \in Calls |-> "none"]

NextResolver ==
    \/ CallExampleTool("A")
    \/ CallGetApiInfo("A")
    \/ Resolve("A")

SpecResolver == InitResolver /\ [][NextResolver]_vars

(* ------------------------------ claims -------------------------------- *)

\* The spellings of the scheme word that match case-insensitively.
BearerLetters ==
    << {"b", "B"}, {"e", "E"}, {"a", "A"}, {"r", "R"}, {"e", "E"}, {"r", "R"}, {" "} >>

IsBearerSpelling(p) ==
    Len(p) = Len(BearerLetters) /\ \A i \in 1..Len(p) : p[i] \in BearerLetters[i]

MatchesBearer(a) ==
    /\ Len(a) > 0
    /\ Len(a[1]) >= Len(BearerLetters)
    /\ IsBearerSpelling(SubSeq(a[1], 1, Len(BearerLetters)))

Blanks == SeqsUpTo({" "}, MaxTail)

\* Tokens with no blank at either end.
CoreTokens == {t \in Tails : t # <<>> /\ t[1] # " " /\ t[Len(t)] # " "}

\* The header value is a bearer spelling, then X with blanks around it.
BearerCarries(a, X) ==
    /\ MatchesBearer(a)
    /\ \E w1 \in Blanks, w2 \in Blanks :
           SubSeq(a[1], Len(BearerLetters) + 1, Len(a[1])) = w1 \o X \o w2

\* What on_request left in the store it wrote to.
Stored(c) ==
    CASE bound[c] = "context" -> ctxState[c].api_key
      [] bound[c] = "request" -> reqState[c].api_key
      [] OTHER -> None

\* The call has a request and a context whose store accepts the write.
Writable(c) == transport[c] = "http" /\ ctxState[c].kind \in {"store", "missing"}

AllReads(c, v) == \A i \in 1..Len(reads[c]) : reads[c][i] = v

HeaderCredential(c) == ExtractToken(auth[c], xkey[c])

\* C1: when the Authorization value is "bearer " in any letter case followed
\* by a non-empty token X with blanks around it, the credential on_request
\* binds (it binds one whenever the call has a writable store) is X without
\* the blanks, and every Resolver invocation of the call returns X.
C1_BearerTokenTrimmed ==
    \A c \in Calls :
        pc[c] = "dispatched" =>
            \A X \in CoreTokens :
                BearerCarries(auth[c], X) =>
                    /\ Writable(c) => bound[c] # "none"
                    /\ bound[c] # "none" => Stored(c) = Some(X) /\ AllReads(c, Some(X))

C1_Witness ==
    \E c \in Calls :
        /\ pc[c] = "dispatched"
        /\ auth[c] = Some(<<"b", "E", "A", "R", "E", "R", " ", " ", "K", " ">>)
        /\ bound[c] = "context"
        /\ Len(reads[c]) > 0
        /\ reads[c][1] = Some(<<"K">>)

\* C2: when the Authorization header is absent or is no bearer value and
\* X-API-KEY holds a non-empty Y, the credential bound and returned by the
\* Resolver is Y exactly, blanks included.
C2_ApiKeyVerbatim ==
    \A c \in Calls :
        (/\ pc[c] = "dispatched"
         /\ ~MatchesBearer(auth[c])
         /\ Len(xkey[c]) > 0
         /\ Len(xkey[c][1]) > 0) =>
            /\ Writable(c) => bound[c] # "none"
            /\ bound[c] # "none" => Stored(c) = xkey[c] /\ AllReads(c, xkey[c])

C2_Witness ==
    \E c \in Calls :
        /\ pc[c] = "dispatched"
        /\ auth[c] = Some(<<"B", "a", "s", "i", "c", " ", "K">>)
        /\ xkey[c] = Some(<<" ", "k", " ">>)
        /\ bound[c] = "request"
        /\ Len(reads[c]) > 0
        /\ reads[c][1] = Some(<<" ", "k", " ">>)

\* C3: a call with neither header gets no credential bound, every Resolver
\* invocation in it returns None, and no exception leaves on_request or
\* get_session_api_key.
C3_NoHeadersAbsence ==
    \A c \in Calls :
        (pc[c] \in {"dispatched", "rejected"} /\ Len(auth[c]) = 0 /\ Len(xkey[c]) = 0) =>
            /\ bound[c] = "none"
            /\ ctxState[c].api_key = None
            /\ reqState[c].api_key = None
            /\ AllReads(c, None)
            /\ fault[c] = "none"
            /\ pc[c] # "rejected"

C3_Witness ==
    \E c \in Calls :
        /\ pc[c] = "dispatched"
        /\ transport[c] = "http"
        /\ Len(auth[c]) = 0
        /\ Len(xkey[c]) = 0
        /\ ctxState[c].kind = "raises"
        /\ reads[c] = <<None>>
        /\ result[c].tool = "example_tool"

\* C4: once on_request has found a non-empty credential and the call has a
\* writable store, the write is in place before any Resolver read of the
\* call: every read returns that credential and get_api_info reports
\* "authenticated", for the context store and for the request store alike.
C4_WriteBeforeRead ==
    \A c \in Calls :
        (pc[c] = "dispatched" /\ Writable(c) /\ ~Falsy(HeaderCredential(c))) =>
            /\ bound[c] = IF ctxState[c].kind = "store" THEN "context" ELSE "request"
            /\ Stored(c) = HeaderCredential(c)
            /\ AllReads(c, HeaderCredential(c))
            /\ result[c].tool = "get_api_info" => result[c].auth_status = "authenticated"

C4_Witness ==
    /\ pc["A"] = "dispatched"
    /\ pc["B"] = "dispatched"
    /\ bound["A"] = "context"
    /\ bound["B"] = "request"
    /\ auth["B"] = Some(<<"B", "e", "a", "r", "e", "r", " ", "a">>)
    /\ \A c \in Calls :
           /\ result[c].tool = "get_api_info"
           /\ result[c].auth_status = "authenticated"

\* C5: of two calls in flight together, one without a credential reads None
\* and holds nothing in its stores, and any call reads and stores nothing
\* but the credential of its own headers.
C5_Isolation ==
    \A c \in Calls : \A d \in Calls \ {c} :
        (pc[c] \in {"arrived", "dispatched"} /\ pc[d] \in {"arrived", "dispatched"}) =>
            /\ Falsy(HeaderCredential(d)) =>
                   /\ AllReads(d, None)
                   /\ ctxState[d].api_key = None
                   /\ reqState[d].api_key = None
                   /\ result[d].kind # "success"
                   /\ result[d].auth_status # "authenticated"
            /\ \A i \in 1..Len(reads[c]) : reads[c][i] \in {None, HeaderCredential(c)}
            /\ ctxState[c].api_key \in {None, HeaderCredential(c)}
            /\ reqState[c].api_key \in {None, HeaderCredential(c)}

C5_Witness ==
    /\ pc["A"] = "dispatched"
    /\ pc["B"] = "dispatched"
    /\ xkey["A"] = Some(<<"k">>)
    /\ bound["A"] = "request"
    /\ reads["A"] = <<Some(<<"k">>), Some(<<"k">>)>>
    /\ Len(auth["B"]) = 0
    /\ Len(xkey["B"]) = 0
    /\ transport["B"] = "http"
    /\ reads["B"] = <<None, None>>
    /\ result["B"].auth_status = "not authenticated"

\* C6: when the Resolver returned None to a tool, example_tool returns the
\* error-shaped result naming the Authorization: Bearer header and not the
\* success-shaped one, get_api_info reports "not authenticated", and
\* neither raises.
C6_MissingCredentialResult ==
    \A c \in Calls :
        (result[c].tool # "none" /\ result[c].seen = None) =>
            /\ fault[c] = "none"
            /\ reads[c] # <<>>
            /\ result[c].tool = "example_tool" =>
                   /\ result[c].kind = "error"
                   /\ result[c].error =
                        "No API key found. Please authenticate with Authorization: Bearer YOUR_API_KEY"
            /\ result[c].tool = "get_api_info" =>
                   result[c].auth_status = "not authenticated"

C6_Witness ==
    \E c \in Calls, d \in Calls :
        /\ result[c].tool = "example_tool"
        /\ result[c].seen = None
        /\ result[c].kind = "error"
        /\ result[d].tool = "get_api_info"
        /\ result[d].seen = None
        /\ result[d].auth_status = "not authenticated"

\* C7: on_request never rejects a call: whatever the headers and whatever
\* fails inside it, it can always run, no exception leaves it, and it has
\* called call_next exactly once when it is over.
C7_NeverBlocks ==
    \A c \in Calls :
        /\ pc[c] # "rejected"
        /\ fault[c] # "interceptor"
        /\ pc[c] = "arrived" => ENABLED OnRequest(c)
        /\ pc[c] = "dispatched" => nextCalls[c] = 1
        /\ pc[c] \in {"idle", "arrived"} => nextCalls[c] = 0

C7_Witness ==
    \E c \in Calls, d \in Calls :
        /\ pc[c] = "dispatched"
        /\ ctxState[c].kind = "frozen"
        /\ ~Falsy(HeaderCredential(c))
        /\ bound[c] = "none"
        /\ nextCalls[c] = 1
        /\ pc[d] = "dispatched"
        /\ transport[d] = "other"
        /\ nextCalls[d] = 1

\* C8: any two Resolver invocations of one call, with no on_request run
\* between them, return the same result.
C8_ResolverIdempotent ==
    \A c \in Calls :
        \A i \in 1..Len(reads[c]), j \in 1..Len(reads[c]) : reads[c][i] = reads[c][j]

C8_Witness ==
    \E c \in Calls, d \in Calls :
        /\ Len(reads[c]) >= 2
        /\ reads[c][1] = Some(<<"a">>)
        /\ reads[c][2] = Some(<<"a">>)
        /\ Len(reads[d]) >= 2
        /\ reads[d][1] = None
        /\ reads[d][2] = None

Present(o) == o # None /\ o[1] # <<>>

\* The context get_context() returns, when it returns one with a store.
AmbientState(c) ==
    CASE ambient[c] = "alt" -> altState[c]
      [] ambient[c] = "ctx" -> ctxState[c]
      [] OTHER -> NoState

\* An empty value counts as absence, as it does in the tools (`if not api_key`).
Credential(o) == IF Falsy(o) THEN None ELSE o

AllReadsCredential(c, v) ==
    \A i \in 1..Len(reads[c]) : Credential(reads[c][i]) = Credential(v)

C10_IndependentFailures ==
    \A c \in Calls :
        pc[c] = "dispatched" =>
            AllReadsCredential(c,
                IF ctxState[c].kind # "raises" /\ ctxState[c].api_key # None
                THEN ctxState[c].api_key
                ELSE IF transport[c] = "http" /\ reqState[c].api_key # None
                     THEN reqState[c].api_key
                ELSE IF AmbientState(c).kind # "raises"
                     THEN AmbientState(c).api_key
                ELSE None)

====
